---- MODULE Spec2Model ----
(***************************************************************************)
(* Model of backend/app.py (Park Prabandh AI server): the in-memory stats  *)
(* store and its lock, the background stats sampler, the REST and SocketIO *)
(* handlers that read the store, and the MJPEG stream generators.          *)
(*                                                                         *)
(* Conventions.                                                            *)
(*  - occupancyRate is held in tenths of a percent (68.4 is 684), so that  *)
(*    round(x, 1) is an integer rounding.                                  *)
(*  - A video file is a record [exists, size, opens, frames]; a handle     *)
(*    (cv2.VideoCapture) binds to the file as it is when it is opened.     *)
(*  - None is the Python None; a sampler result is None or <<occ, free>>.  *)
(***************************************************************************)
EXTENDS Integers, Sequences, FiniteSets, TLC

\* ------------------------------------------------------------------ bounds
\* Largest number of boxes of one class the Detector returns for a frame.
MaxDet == 2
\* Largest frame count of a video file.
MaxFrames == 2

\* ------------------------------------------------------- program constants
\* os.path.getsize(path) < 10_000 rejects the file.
MinVideoSize == 10000
\* random.randint(0, 5) for violations.
MaxViolations == 5
\* dailyRevenue = round(occupied * 150 * 0.8)
SlotFee == 150

None == <<>>

Paths == {1, 2}
video_path_1 == 1
video_path_2 == 2

\* ------------------------------------------------------------ video files
MissingFile == [exists |-> FALSE, size |-> 0, opens |-> FALSE, frames |-> 0]

SourceStates ==
    {MissingFile}
    \cup {[exists |-> TRUE, size |-> MinVideoSize - 1, opens |-> FALSE, frames |-> 0]}
    \cup {[exists |-> TRUE, size |-> MinVideoSize, opens |-> FALSE, frames |-> 0]}
    \cup {[exists |-> TRUE, size |-> MinVideoSize, opens |-> TRUE, frames |-> n] :
             n \in 0..MaxFrames}

\* _is_valid_video(path), on a file that does not change during the call.
IsValidVideo(s) ==
    IF ~s.exists THEN FALSE
    ELSE IF s.size < MinVideoSize THEN FALSE
    ELSE s.opens /\ s.frames > 0

\* ------------------------------------------------------------- arithmetic
\* Python's round() of the exact rational num/den, den > 0, num >= 0: to the
\* nearest integer, a tie to the even one (the ties within the bounds, k/16,
\* are exact in binary floating point, where round() sends them to the even
\* neighbour: round(43.75, 1) == 43.8, round(56.25, 1) == 56.2).
RoundHalfEven(num, den) ==
    LET q == num \div den
        r == num % den
    IN  IF 2 * r < den THEN q
        ELSE IF 2 * r > den THEN q + 1
        ELSE IF q % 2 = 0 THEN q ELSE q + 1

\* The rate cut to a tenth instead of rounded.
RateTruncated(occupied, total) == (1000 * occupied) \div total

\* round((occupied / total) * 100, 1), in tenths.
Rate(occupied, total) == RoundHalfEven(1000 * occupied, total)

\* The revenue without the 0.8 factor.
RevenueNoDiscount(occupied) == occupied * SlotFee

\* round(occupied * 150 * 0.8)
Revenue(occupied) == RoundHalfEven(occupied * SlotFee * 8, 10)

\* What the Detector can return for one frame, counted by class as
\* _sample_one_frame counts it: <<occupied, free>>; boxes of a class beyond
\* classNames are not counted. <<7, 9>> is a sample whose rate is a rounding tie.
DetCounts == ((0..MaxDet) \X (0..MaxDet)) \cup {<<7, 9>>}

\* ------------------------------------------------------------------ state
VARIABLES
    slot_stats,      \* _slot_stats: totalSlots, occupiedSlots, freeSlots, occupancyRate
    system_metrics,  \* _system_metrics: dailyRevenue, activeVehicles, violations
    stats_lock,      \* _stats_lock: "free" or the context that holds it
    source,          \* the video file behind each path
    spc,             \* the sampler thread's position in background_stats_updater
    scap,            \* the sampler's cv2.VideoCapture: None, or the file it opened
    result,          \* the value _sample_one_frame returned in this cycle, or None
    cycle,           \* what this sampler cycle has done so far (history)
    req,             \* the request handler that is inside its `with _stats_lock`
    resp,            \* the body that handler has built, or None
    conn,            \* per video-feed connection: its stream_logic generator
    cap,             \* per generator: its persistent cv2.VideoCapture
    reader,          \* what a client polling /slot_stats and /system_metrics holds
    health_resp      \* the body health() has returned and not yet sent

statsVars == <<slot_stats, system_metrics, stats_lock, spc, scap, result, cycle, req, resp>>

vars == <<slot_stats, system_metrics, stats_lock, source, spc, scap, result, cycle, req, resp,
          conn, cap, reader, health_resp>>

\* The state of the clients of the lock-free and the polled routes.
clientVars == <<reader, health_resp>>

NewCycle == [det |-> FALSE, skip |-> "none", exc |-> FALSE, pushed |-> <<>>]

InitStats ==
    /\ slot_stats = [totalSlots |-> 396, occupiedSlots |-> 271, freeSlots |-> 125,
                     occupancyRate |-> 684]
    /\ system_metrics = [dailyRevenue |-> 22400, activeVehicles |-> 143, violations |-> 3]
    /\ stats_lock = "free"
    /\ spc = "start"
    /\ scap = None
    /\ result = None
    /\ cycle = NewCycle
    /\ req = [h |-> "none", pc |-> "idle"]
    /\ resp = None

InitSource == source = [p \in Paths |-> [exists |-> TRUE, size |-> MinVideoSize,
                                         opens |-> TRUE, frames |-> MaxFrames]]

\* The file behind a path is replaced, removed or restored by the operator.
ChangeSource(p, states) ==
    \E s \in states \ {source[p]} : source' = [source EXCEPT ![p] = s]

\* ---------------------------------------------------------------- sampler
\* Where the sampler goes when _sample_one_frame returns None (`if result:` is
\* false): straight to time.sleep(10).
SkipTo == "sleep"

\* A handler that lets the thread end.
CatchDies == "dead"

\* A handler that goes back to the emits after a failure.
CatchRetries == "emit1"

\* Where the sampler goes after `except Exception as exc: print(...)`.
Catch == "sleep"

\* The emits placed inside `if total > 0:`.
NoUpdateToSleep == "sleep"

\* A cycle without detections that announces stats-update alone.
NoUpdateToStatsUpdate == "emit2"

\* Where the sampler goes when total == 0: the emits of lines 125-126 are inside
\* `if result:` and outside `if total > 0:`.
NoUpdateTo == "emit1"

\* The read's success flag ignored.
AfterReadAlways(success) == "detect"

\* `if not success: return None` after cap.read().
AfterRead(success) == IF success THEN "detect" ELSE SkipTo

\* The free boxes left out of the total.
TotalOccupiedOnly(occupied, free) == occupied

\* `total = occupied + free`
Total(occupied, free) == occupied + free

\* The guard off by one.
ShouldUpdateAlways(total) == total >= 0

\* `if total > 0:` guards the store update.
ShouldUpdate(total) == total > 0

Skip(why) ==
    /\ spc' = SkipTo
    /\ cycle' = [cycle EXCEPT !.skip = why]

Raise ==
    /\ spc' = "except"
    /\ cycle' = [cycle EXCEPT !.exc = TRUE]

\* _is_valid_video, line 153: os.path.exists(path).
SamplerExists ==
    /\ spc = "start"
    /\ IF source[video_path_1].exists
          THEN spc' = "probe" /\ UNCHANGED cycle
          ELSE Skip("invalid")
    /\ UNCHANGED <<slot_stats, system_metrics, stats_lock, source, scap, result, req, resp>>

\* _is_valid_video, lines 155-160: getsize (raises when the file has gone since
\* the exists check), then a probe handle opened, asked for its frame count and
\* released.
SamplerProbe ==
    /\ spc = "probe"
    /\ IF ~source[video_path_1].exists THEN Raise
       ELSE IF IsValidVideo(source[video_path_1])
               THEN spc' = "open" /\ UNCHANGED cycle
               ELSE Skip("invalid")
    /\ UNCHANGED <<slot_stats, system_metrics, stats_lock, source, scap, result, req, resp>>

\* Lines 77-83: cap = cv2.VideoCapture(path); not opened returns None.
SamplerOpen ==
    /\ spc = "open"
    /\ IF source[video_path_1].exists /\ source[video_path_1].opens
          THEN spc' = "read" /\ scap' = source[video_path_1] /\ UNCHANGED cycle
          ELSE Skip("unopened") /\ UNCHANGED scap
    /\ UNCHANGED <<slot_stats, system_metrics, stats_lock, source, result, req, resp>>

\* Lines 81-88: the random seek, cap.read(), cap.release().
SamplerRead ==
    /\ spc = "read"
    /\ scap' = None
    /\ LET success == scap.frames > 0
       IN  /\ spc' = AfterRead(success)
           /\ cycle' = IF success THEN cycle ELSE [cycle EXCEPT !.skip = "noframe"]
    /\ UNCHANGED <<slot_stats, system_metrics, stats_lock, source, result, req, resp>>

\* Lines 90-102 and 110-114: the Detector runs on the frame (or raises), the
\* boxes are counted, and `if result:` / `if total > 0:` choose the branch. A
\* tuple is truthy, so <<0, 0>> goes on to the emits.
SamplerDetect ==
    /\ spc = "detect"
    /\ \/ \E c \in DetCounts :
             /\ result' = c
             /\ cycle' = [cycle EXCEPT !.det = TRUE]
             /\ spc' = IF ShouldUpdate(Total(c[1], c[2])) THEN "lock" ELSE NoUpdateTo
       \/ /\ spc' = "except"
          /\ cycle' = [cycle EXCEPT !.det = TRUE, !.exc = TRUE]
          /\ UNCHANGED result
    /\ UNCHANGED <<slot_stats, system_metrics, stats_lock, source, scap, req, resp>>

\* Line 115: `with _stats_lock:` entered.
SamplerLock ==
    /\ spc = "lock"
    /\ stats_lock = "free"
    /\ stats_lock' = "sampler"
    /\ spc' = "w_occupied"
    /\ UNCHANGED <<slot_stats, system_metrics, source, scap, result, cycle, req, resp>>

\* Lines 116-122: the seven assignments, one step each, under the lock.
SamplerWrite ==
    /\ spc \in {"w_occupied", "w_free", "w_total", "w_rate", "w_active", "w_revenue",
                "w_violations"}
    /\ LET occupied == result[1]
           free == result[2]
           total == Total(occupied, free)
       IN  CASE spc = "w_occupied" ->
                  /\ slot_stats' = [slot_stats EXCEPT !.occupiedSlots = occupied]
                  /\ spc' = "w_free"
                  /\ UNCHANGED system_metrics
             [] spc = "w_free" ->
                  /\ slot_stats' = [slot_stats EXCEPT !.freeSlots = free]
                  /\ spc' = "w_total"
                  /\ UNCHANGED system_metrics
             [] spc = "w_total" ->
                  /\ slot_stats' = [slot_stats EXCEPT !.totalSlots = total]
                  /\ spc' = "w_rate"
                  /\ UNCHANGED system_metrics
             [] spc = "w_rate" ->
                  /\ slot_stats' = [slot_stats EXCEPT !.occupancyRate = Rate(occupied, total)]
                  /\ spc' = "w_active"
                  /\ UNCHANGED system_metrics
             [] spc = "w_active" ->
                  /\ system_metrics' = [system_metrics EXCEPT !.activeVehicles = occupied]
                  /\ spc' = "w_revenue"
                  /\ UNCHANGED slot_stats
             [] spc = "w_revenue" ->
                  /\ system_metrics' = [system_metrics EXCEPT !.dailyRevenue = Revenue(occupied)]
                  /\ spc' = "w_violations"
                  /\ UNCHANGED slot_stats
             [] spc = "w_violations" ->
                  /\ \E v \in 0..MaxViolations :
                        system_metrics' = [system_metrics EXCEPT !.violations = v]
                  /\ spc' = "unlock"
                  /\ UNCHANGED slot_stats
    /\ UNCHANGED <<stats_lock, source, scap, result, cycle, req, resp>>

\* The `with` block is left.
SamplerUnlock ==
    /\ spc = "unlock"
    /\ stats_lock' = "free"
    /\ spc' = "emit1"
    /\ UNCHANGED <<slot_stats, system_metrics, source, scap, result, cycle, req, resp>>

\* socketio.emit(event, dict(_slot_stats)): the store is read without the lock;
\* the push is delivered, or emit raises.
Emit(event, next) ==
    \/ /\ cycle' = [cycle EXCEPT !.pushed = Append(@, [event |-> event, data |-> slot_stats])]
       /\ spc' = next
    \/ Raise

\* Line 125.
SamplerEmitSlotUpdates ==
    /\ spc = "emit1"
    /\ Emit("slot_updates", "emit2")
    /\ UNCHANGED <<slot_stats, system_metrics, stats_lock, source, scap, result, req, resp>>

\* Line 126.
SamplerEmitStatsUpdate ==
    /\ spc = "emit2"
    /\ Emit("stats-update", "sleep")
    /\ UNCHANGED <<slot_stats, system_metrics, stats_lock, source, scap, result, req, resp>>

\* Lines 127-128: the exception is printed and dropped.
SamplerExcept ==
    /\ spc = "except"
    /\ spc' = Catch
    /\ UNCHANGED <<slot_stats, system_metrics, stats_lock, source, scap, result, cycle, req, resp>>

\* Line 130 and back to line 107: the next cycle starts with fresh locals.
SamplerSleep ==
    /\ spc = "sleep"
    /\ spc' = "start"
    /\ result' = None
    /\ cycle' = NewCycle
    /\ UNCHANGED <<slot_stats, system_metrics, stats_lock, source, scap, req, resp>>

Sampler ==
    \/ SamplerExists
    \/ SamplerProbe
    \/ SamplerOpen
    \/ SamplerRead
    \/ SamplerDetect
    \/ SamplerLock
    \/ SamplerWrite
    \/ SamplerUnlock
    \/ SamplerEmitSlotUpdates
    \/ SamplerEmitStatsUpdate
    \/ SamplerExcept
    \/ SamplerSleep

\* ------------------------------------------------- handlers under the lock
LockedHandlers == {"slot_stats", "system_metrics", "handle_connect"}

\* `with _stats_lock:` entered by slot_stats, system_metrics or handle_connect.
HandlerLock(h) ==
    /\ req.h = "none"
    /\ stats_lock = "free"
    /\ stats_lock' = h
    /\ req' = [h |-> h, pc |-> "locked"]
    /\ UNCHANGED <<slot_stats, system_metrics, source, spc, scap, result, cycle, resp>>

\* jsonify(dict(_slot_stats)), jsonify(dict(_system_metrics)), or
\* emit('slot_updates', dict(_slot_stats)) to the connecting client.
HandlerBody(h) ==
    CASE h = "slot_stats" -> [kind |-> "json", data |-> slot_stats]
      [] h = "system_metrics" -> [kind |-> "json", data |-> system_metrics]
      [] h = "handle_connect" -> [kind |-> "slot_updates", data |-> slot_stats]

HandlerRead ==
    /\ req.pc = "locked"
    /\ resp' = HandlerBody(req.h)
    /\ req' = [req EXCEPT !.pc = "built"]
    /\ UNCHANGED <<slot_stats, system_metrics, stats_lock, source, spc, scap, result, cycle>>

\* The `with` block is left and the body goes to the client.
HandlerReturn ==
    /\ req.pc = "built"
    /\ stats_lock' = "free"
    /\ req' = [h |-> "none", pc |-> "idle"]
    /\ resp' = None
    /\ UNCHANGED <<slot_stats, system_metrics, source, spc, scap, result, cycle>>

Handlers ==
    \/ \E h \in LockedHandlers : HandlerLock(h)
    \/ HandlerRead
    \/ HandlerReturn

\* GET /slot_stats alone.
SlotStatsHandler == HandlerLock("slot_stats") \/ HandlerRead \/ HandlerReturn

\* ------------------------------------------------------- stream generators
\* The video-feed connections that can be open at once.
Conns == {"c1", "c2"}

\* cap.read() returning (False, None): no frame in img.
NoFrame == -1

ClosedCap == [open |-> FALSE, frames |-> 0, pos |-> 0]

\* _make_placeholder_frame(...) wrapped as one multipart part (lines 169-171),
\* and an annotated frame wrapped the same way (lines 207-208).
PlaceholderChunk == [boundary |-> "--frame", type |-> "image/jpeg", image |-> "placeholder",
                     idx |-> NoFrame]
FrameChunk(i) == [boundary |-> "--frame", type |-> "image/jpeg", image |-> "frame", idx |-> i]
NoChunk == [boundary |-> "", type |-> "", image |-> "", idx |-> NoFrame]

\* A connection with no generator running.
IdleConn == [pc |-> "idle", path |-> video_path_1, img |-> NoFrame, out |-> NoChunk,
             valid |-> "unknown", det |-> FALSE, prev |-> NoFrame]

InitStream ==
    /\ conn = [c \in Conns |-> IdleConn]
    /\ cap = [c \in Conns |-> ClosedCap]

\* One module-level handle used by every generator.
SharedCap(c) == "c1"

\* `cap` is a local of each generator: every connection has a handle of its own.
StreamCap(c) == c

\* video_feed_1 / video_feed_2: Response(stream_logic(path)).
VideoFeed(c, p) ==
    /\ conn[c].pc = "idle"
    /\ conn' = [conn EXCEPT ![c] = [IdleConn EXCEPT !.pc = "exists", !.path = p]]
    /\ UNCHANGED <<cap, source, statsVars>>

\* Lines 166-173 once _is_valid_video has returned False: frame_bytes is built
\* and the generator is suspended at its first `yield frame_bytes`.
GoPlaceholder(c) ==
    conn' = [conn EXCEPT ![c].pc = "ph_yield", ![c].valid = "invalid",
                         ![c].out = PlaceholderChunk]

\* An exception leaves stream_logic: the generator is finished.
StreamRaise(c) ==
    conn' = [conn EXCEPT ![c].pc = "raised", ![c].out = NoChunk, ![c].img = NoFrame,
                         ![c].prev = NoFrame]

\* _is_valid_video, line 153.
StreamExists(c) ==
    /\ conn[c].pc = "exists"
    /\ IF source[conn[c].path].exists
          THEN conn' = [conn EXCEPT ![c].pc = "probe"]
          ELSE GoPlaceholder(c)
    /\ UNCHANGED <<cap, source, statsVars>>

\* _is_valid_video, lines 155-160.
StreamProbe(c) ==
    /\ conn[c].pc = "probe"
    /\ IF ~source[conn[c].path].exists THEN StreamRaise(c)
       ELSE IF IsValidVideo(source[conn[c].path])
               THEN conn' = [conn EXCEPT ![c].pc = "open", ![c].valid = "valid"]
               ELSE GoPlaceholder(c)
    /\ UNCHANGED <<cap, source, statsVars>>

\* Line 177: cap = cv2.VideoCapture(path), not checked with isOpened().
StreamOpen(c) ==
    /\ conn[c].pc = "open"
    /\ LET s == source[conn[c].path]
       IN  cap' = [cap EXCEPT ![StreamCap(c)] =
                      IF s.exists /\ s.opens
                         THEN [open |-> TRUE, frames |-> s.frames, pos |-> 0]
                         ELSE ClosedCap]
    /\ conn' = [conn EXCEPT ![c].pc = "read"]
    /\ UNCHANGED <<source, statsVars>>

\* Lines 180-185: cap.read(); at end-of-stream cap.set(CAP_PROP_POS_FRAMES, 0)
\* and `continue`.
StreamRead(c) ==
    /\ conn[c].pc = "read"
    /\ LET h == StreamCap(c)
       IN  IF cap[h].pos < cap[h].frames
              THEN /\ conn' = [conn EXCEPT ![c].img = cap[h].pos, ![c].pc = "detect"]
                   /\ cap' = [cap EXCEPT ![h].pos = @ + 1]
              ELSE /\ conn' = [conn EXCEPT ![c].img = NoFrame]
                   /\ cap' = [cap EXCEPT ![h].pos = 0]
    /\ UNCHANGED <<source, statsVars>>

\* Lines 188-201: resize, the Detector, the overlay drawn on img. The Detector
\* returns, or raises, and nothing in stream_logic catches it.
StreamDetect(c) ==
    /\ conn[c].pc = "detect"
    /\ \/ conn' = [conn EXCEPT ![c].pc = "encode", ![c].det = TRUE]
       \/ conn' = [conn EXCEPT ![c].pc = "raised", ![c].det = TRUE, ![c].out = NoChunk,
                               ![c].img = NoFrame, ![c].prev = NoFrame]
    /\ UNCHANGED <<cap, source, statsVars>>

\* An encoding failure that ends the generator.
EncodeFailureEnds(c) ==
    /\ conn[c].pc = "encode"
    /\ \/ conn' = [conn EXCEPT ![c].pc = "yield", ![c].out = FrameChunk(conn[c].img)]
       \/ conn' = [conn EXCEPT ![c].pc = "raised"]
    /\ UNCHANGED <<cap, source, statsVars>>

\* Lines 203-208: cv2.imencode; `if not ret: continue`, else the chunk is
\* yielded and the generator is suspended.
StreamEncode(c) ==
    /\ conn[c].pc = "encode"
    /\ \/ conn' = [conn EXCEPT ![c].pc = "yield", ![c].out = FrameChunk(conn[c].img)]
       \/ conn' = [conn EXCEPT ![c].pc = "read"]
    /\ UNCHANGED <<cap, source, statsVars>>

\* A generator that releases its handle after each chunk.
ResumeReleases(c) ==
    /\ conn[c].pc = "yield"
    /\ conn' = [conn EXCEPT ![c].pc = "read", ![c].out = NoChunk,
                            ![c].prev = conn[c].out.idx]
    /\ cap' = [cap EXCEPT ![StreamCap(c)] = ClosedCap]
    /\ UNCHANGED <<source, statsVars>>

\* The response pulls the next chunk: the generator resumes after its yield.
\* prev remembers the frame that was sent (history).
StreamResume(c) ==
    /\ conn[c].pc = "yield"
    /\ conn' = [conn EXCEPT ![c].pc = "read", ![c].out = NoChunk,
                            ![c].prev = conn[c].out.idx]
    /\ UNCHANGED <<cap, source, statsVars>>

\* Lines 172-174: the placeholder loop, resumed, sleeping 0.5 s, yielding again.
StreamPlaceholderResume(c) ==
    /\ conn[c].pc = "ph_yield"
    /\ conn' = [conn EXCEPT ![c].pc = "ph_sleep", ![c].out = NoChunk]
    /\ UNCHANGED <<cap, source, statsVars>>

\* A placeholder loop that validates the source again after each sleep.
PlaceholderRecheck(c) ==
    /\ conn[c].pc = "ph_sleep"
    /\ IF IsValidVideo(source[conn[c].path])
          THEN conn' = [conn EXCEPT ![c].pc = "open"]
          ELSE conn' = [conn EXCEPT ![c].pc = "ph_yield", ![c].out = PlaceholderChunk]
    /\ UNCHANGED <<cap, source, statsVars>>

\* Line 173 again, after the sleep of line 174.
StreamPlaceholderYield(c) ==
    /\ conn[c].pc = "ph_sleep"
    /\ conn' = [conn EXCEPT ![c].pc = "ph_yield", ![c].out = PlaceholderChunk]
    /\ UNCHANGED <<cap, source, statsVars>>

\* The client goes away (or the response of a finished generator ends): the
\* generator is closed at its yield and its handle is dropped with it.
StreamClose(c) ==
    /\ conn[c].pc \in {"yield", "ph_yield", "raised"}
    /\ conn' = [conn EXCEPT ![c] = IdleConn]
    /\ cap' = [cap EXCEPT ![StreamCap(c)] = ClosedCap]
    /\ UNCHANGED <<source, statsVars>>

\* The steps a generator takes by itself.
StreamStep(c) ==
    \/ StreamExists(c)
    \/ StreamProbe(c)
    \/ StreamOpen(c)
    \/ StreamRead(c)
    \/ StreamDetect(c)
    \/ StreamEncode(c)
    \/ StreamResume(c)
    \/ StreamPlaceholderResume(c)
    \/ StreamPlaceholderYield(c)

Streams(C) ==
    \E c \in C :
        \/ \E p \in Paths : VideoFeed(c, p)
        \/ StreamStep(c)
        \/ StreamClose(c)

\* ------------------------------------------------------------------ clients
\* {"status": "ok"}, and the absence of a body.
HealthBody == [status |-> "ok"]
NoBody == [status |-> ""]

InitClients ==
    /\ reader = "none"
    /\ health_resp = NoBody

\* A health() that waited for the lock as the other routes do.
HealthLocked ==
    /\ stats_lock = "free"
    /\ health_resp' = HealthBody
    /\ UNCHANGED <<statsVars, source, conn, cap, reader>>

\* GET /health: return jsonify({"status": "ok"}), with no lock and no read of
\* the store, the sources or the Detector.
Health ==
    /\ health_resp' = HealthBody
    /\ UNCHANGED <<statsVars, source, conn, cap, reader>>

\* The body has gone to the client.
HealthSent ==
    /\ health_resp = HealthBody
    /\ health_resp' = NoBody
    /\ UNCHANGED <<statsVars, source, conn, cap, reader>>

\* The channel names a client may send with 'subscribe'.
Channels == {"slot_updates", "stats-update"}

\* A subscribe handler that restarts the counters of the store.
SubscribeResets(channel) ==
    /\ slot_stats' = [slot_stats EXCEPT !.totalSlots = 0]
    /\ UNCHANGED <<system_metrics, stats_lock, source, spc, scap, result, cycle, req, resp,
                   conn, cap, reader, health_resp>>

\* handle_subscribe(channel), lines 266-268: the channel is printed, nothing
\* is joined, stored or answered.
HandleSubscribe(channel) == UNCHANGED vars

\* handle_disconnect, lines 271-273: a print.
HandleDisconnect == UNCHANGED vars

\* A client that polls GET /slot_stats and GET /system_metrics, one request
\* after the other (there is no route that returns both): what it holds once
\* the handler h has returned its body. "snapshot": the body of /slot_stats;
\* "stale": that body, while _slot_stats has been overwritten since; "pair":
\* both bodies with no overwrite between them; "mixed": both bodies, the
\* second one read after an overwrite.
Obtained(h, r) ==
    CASE h = "slot_stats" -> "snapshot"
      [] h = "system_metrics" /\ r = "snapshot" -> "pair"
      [] h = "system_metrics" /\ r = "stale" -> "mixed"
      [] OTHER -> r

\* The sampler's assignments at lines 116-119 overwrite what the client read.
Overwritten(r) ==
    IF r = "snapshot" /\ slot_stats' # slot_stats THEN "stale" ELSE r

PolledSampler ==
    /\ Sampler
    /\ reader' = Overwritten(reader)
    /\ UNCHANGED <<conn, cap, health_resp>>

PolledReturn ==
    /\ HandlerReturn
    /\ reader' = Obtained(req.h, reader)
    /\ UNCHANGED <<conn, cap, health_resp>>

\* ---------------------------------------------------------- specifications
Init == InitStats /\ InitSource /\ InitStream /\ InitClients

\* The stats side: the sampler thread, the handlers that take the lock, and the
\* file behind video_path_1, the only path the sampler reads.
NextStats ==
    \/ Sampler /\ UNCHANGED <<conn, cap, clientVars>>
    \/ Handlers /\ UNCHANGED <<conn, cap, clientVars>>
    \/ ChangeSource(video_path_1, SourceStates) /\ UNCHANGED <<statsVars, conn, cap, clientVars>>

SpecStats == Init /\ [][NextStats]_vars

\* The sampler beside one handler that contends for the lock, under fairness:
\* the sampler is a thread of its own and a handler runs to its end, so each
\* keeps taking steps while it can; a sampler blocked at `with _stats_lock`
\* gets the lock at some release (a handler holds it for one copy only).
NextSampler ==
    \/ Sampler /\ UNCHANGED <<conn, cap, clientVars>>
    \/ SlotStatsHandler /\ UNCHANGED <<conn, cap, clientVars>>
    \/ ChangeSource(video_path_1, SourceStates) /\ UNCHANGED <<statsVars, conn, cap, clientVars>>

FairSampler ==
    /\ Init /\ [][NextSampler]_vars
    /\ WF_vars(Sampler /\ UNCHANGED <<conn, cap, clientVars>>)
    /\ SF_vars(SamplerLock /\ UNCHANGED <<conn, cap, clientVars>>)
    /\ WF_vars((HandlerRead \/ HandlerReturn) /\ UNCHANGED <<conn, cap, clientVars>>)

\* One video feed: a single connection, on either path, while the files behind
\* both paths change, and a /slot_stats handler that takes the lock.
NextStream ==
    \/ Streams({"c1"}) /\ UNCHANGED clientVars
    \/ SlotStatsHandler /\ UNCHANGED <<conn, cap, clientVars>>
    \/ \E p \in Paths : ChangeSource(p, SourceStates) /\ UNCHANGED <<statsVars, conn, cap, clientVars>>

SpecStream == Init /\ [][NextStream]_vars

\* Concurrent video feeds: every connection, on either path; the file behind
\* video_path_2 goes away and comes back.
FeedSourceStates == {s \in SourceStates : ~s.exists \/ s.frames = MaxFrames}

NextFeeds ==
    \/ Streams(Conns) /\ UNCHANGED clientVars
    \/ SlotStatsHandler /\ UNCHANGED <<conn, cap, clientVars>>
    \/ ChangeSource(video_path_2, FeedSourceStates) /\ UNCHANGED <<statsVars, conn, cap, clientVars>>

SpecFeeds == Init /\ [][NextFeeds]_vars

\* The sampler beside a client that polls the routes that take the lock, and a
\* SocketIO client that connects; the file behind video_path_1 stays valid.
NextReaders ==
    \/ PolledSampler
    \/ \E h \in LockedHandlers : HandlerLock(h) /\ UNCHANGED <<conn, cap, clientVars>>
    \/ HandlerRead /\ UNCHANGED <<conn, cap, clientVars>>
    \/ PolledReturn

SpecReaders == Init /\ [][NextReaders]_vars

\* GET /health beside the sampler, a handler that takes the lock and the file
\* behind video_path_1.
NextHealth ==
    \/ Health
    \/ HealthSent
    \/ Sampler /\ UNCHANGED <<conn, cap, clientVars>>
    \/ SlotStatsHandler /\ UNCHANGED <<conn, cap, clientVars>>
    \/ ChangeSource(video_path_1, SourceStates) /\ UNCHANGED <<statsVars, conn, cap, clientVars>>

SpecHealth == Init /\ [][NextHealth]_vars

\* Every route and SocketIO handler beside one video feed, while the files
\* behind both paths change.
NextRoutes ==
    \/ Streams({"c1"}) /\ UNCHANGED clientVars
    \/ Handlers /\ UNCHANGED <<conn, cap, clientVars>>
    \/ Health
    \/ HealthSent
    \/ \E channel \in Channels : HandleSubscribe(channel)
    \/ HandleDisconnect
    \/ \E p \in Paths : ChangeSource(p, SourceStates) /\ UNCHANGED <<statsVars, conn, cap, clientVars>>

SpecRoutes == Init /\ [][NextRoutes]_vars

\* The sampler, which reads video_path_1, beside one connection to
\* /video_feed_2 while the file behind video_path_2 goes away and comes back.
NextHandles ==
    \/ Sampler /\ UNCHANGED <<conn, cap, clientVars>>
    \/ VideoFeed("c1", video_path_2) /\ UNCHANGED clientVars
    \/ StreamStep("c1") /\ UNCHANGED clientVars
    \/ StreamClose("c1") /\ UNCHANGED clientVars
    \/ ChangeSource(video_path_2, FeedSourceStates) /\ UNCHANGED <<statsVars, conn, cap, clientVars>>

SpecHandles == Init /\ [][NextHandles]_vars

\* The whole server.
Next ==
    \/ PolledSampler
    \/ \E h \in LockedHandlers : HandlerLock(h) /\ UNCHANGED <<conn, cap, clientVars>>
    \/ HandlerRead /\ UNCHANGED <<conn, cap, clientVars>>
    \/ PolledReturn
    \/ Health
    \/ HealthSent
    \/ \E channel \in Channels : HandleSubscribe(channel)
    \/ HandleDisconnect
    \/ Streams(Conns) /\ UNCHANGED clientVars
    \/ \E p \in Paths : ChangeSource(p, SourceStates) /\ UNCHANGED <<statsVars, conn, cap, clientVars>>

Spec == Init /\ [][Next]_vars

\* ------------------------------------------------------------------ claims
Consistent(s) == s.occupiedSlots + s.freeSlots = s.totalSlots

\* r is 100 * occupied / total in tenths, rounded to a nearest tenth, whichever
\* way a tie goes.
NearestTenth(r, occupied, total) ==
    /\ 2 * (r * total - 1000 * occupied) <= total
    /\ 2 * (1000 * occupied - r * total) <= total

StoreStable == stats_lock # "sampler"

SnapshotBodies ==
    {cycle.pushed[i].data : i \in 1..Len(cycle.pushed)}
    \cup (IF req.pc = "built" /\ req.h \in {"slot_stats", "handle_connect"}
             THEN {resp.data} ELSE {})

\* C1: whenever the sampler is not inside its locked update, occupiedSlots +
\* freeSlots = totalSlots in the store, and the same holds of every body
\* /slot_stats returns and of every snapshot pushed (by the sampler's emits and
\* by handle_connect).
C1_SlotsAddUp ==
    /\ StoreStable => Consistent(slot_stats)
    /\ \A b \in SnapshotBodies : Consistent(b)

C1_Witness ==
    /\ spc = "sleep"
    /\ Len(cycle.pushed) = 2
    /\ result = <<2, 1>>
    /\ req.pc = "built"
    /\ req.h = "slot_stats"

\* C2: whenever the sampler is not inside its locked update and totalSlots > 0,
\* occupancyRate is 100 * occupiedSlots / totalSlots rounded to one decimal
\* place, and lies in [0, 100] (0..1000 tenths).
C2_RateRounded ==
    (StoreStable /\ slot_stats.totalSlots > 0) =>
        /\ NearestTenth(slot_stats.occupancyRate, slot_stats.occupiedSlots,
                        slot_stats.totalSlots)
        /\ slot_stats.occupancyRate \in 0..1000

\* A rounding tie, 7/16 = 43.75 %, has been stored as 43.8.
C2_Witness ==
    /\ StoreStable
    /\ slot_stats.occupiedSlots = 7
    /\ slot_stats.totalSlots = 16
    /\ slot_stats.occupancyRate = 438

Updated == result # None /\ spc \in {"emit1", "emit2", "except", "sleep"}

\* C3: once a cycle whose Detector returned o occupied and f free boxes, o + f >
\* 0, has left its update, the store holds occupiedSlots = o, freeSlots = f,
\* totalSlots = o + f, occupancyRate = 100 o / (o + f) to a nearest tenth,
\* activeVehicles = o and dailyRevenue = 120 o, whatever it held before;
\* (2, 1) gives 2, 1, 3, 66.7, 2, 240.
C3_CycleResult ==
    (Updated /\ result[1] + result[2] > 0) =>
        LET o == result[1]
            f == result[2]
        IN  /\ slot_stats.occupiedSlots = o
            /\ slot_stats.freeSlots = f
            /\ slot_stats.totalSlots = o + f
            /\ NearestTenth(slot_stats.occupancyRate, o, o + f)
            /\ system_metrics.activeVehicles = o
            /\ system_metrics.dailyRevenue = 120 * o
            /\ system_metrics.violations \in 0..5
            /\ result = <<2, 1>> =>
                  /\ slot_stats = [totalSlots |-> 3, occupiedSlots |-> 2, freeSlots |-> 1,
                                   occupancyRate |-> 667]
                  /\ system_metrics.dailyRevenue = 240

C3_Witness ==
    /\ spc = "sleep"
    /\ result = <<2, 1>>
    /\ slot_stats.occupancyRate = 667
    /\ system_metrics.dailyRevenue = 240
    /\ system_metrics.activeVehicles = 2

ZeroDetections == result # None /\ result[1] + result[2] = 0

\* C4: in a cycle whose Detector returns no countable box, no step from the
\* start of the cycle (no result yet) to its sleep changes _slot_stats or
\* _system_metrics.
C4_ZeroKeepsStore ==
    [][(result = None \/ ZeroDetections) =>
          (slot_stats' = slot_stats /\ system_metrics' = system_metrics)]_vars

C4_Witness ==
    /\ spc = "sleep"
    /\ ZeroDetections
    /\ Len(cycle.pushed) = 2
    /\ slot_stats.totalSlots = 3

\* C5: a cycle whose source fails validation, does not open, or yields no frame
\* goes to its sleep with no result, without the Detector having been invoked
\* and with nothing pushed; and no step of a cycle that has not invoked the
\* Detector changes the store.
C5_InvalidSourceSkips ==
    /\ [](cycle.skip # "none" =>
            /\ spc = "sleep"
            /\ ~cycle.det
            /\ result = None
            /\ cycle.pushed = <<>>)
    /\ [][~cycle.det => (slot_stats' = slot_stats /\ system_metrics' = system_metrics)]_vars

C5_Witness ==
    /\ spc = "sleep"
    /\ cycle.skip = "invalid"
    /\ source[video_path_1].exists
    /\ source[video_path_1].size < MinVideoSize
    /\ slot_stats.totalSlots = 2

Pushed(events) ==
    /\ Len(cycle.pushed) = Len(events)
    /\ \A i \in 1..Len(events) :
          cycle.pushed[i] = [event |-> events[i], data |-> slot_stats]

C6_SamplerNeverStops ==
    /\ []<>(spc = "sleep")
    /\ []<>(spc = "start")
    /\ [](cycle.exc =>
            /\ StoreStable
            /\ Consistent(slot_stats)
            /\ NearestTenth(slot_stats.occupancyRate, slot_stats.occupiedSlots,
                            slot_stats.totalSlots))

\* The sleep has been reached after an emit raised, the store already updated.
C6_Witness ==
    /\ spc = "sleep"
    /\ cycle.exc
    /\ cycle.det
    /\ result = <<1, 2>>
    /\ Len(cycle.pushed) = 1

\* C7: a generator whose validation at its start found the source invalid is,
\* in every later state until its client closes it, in the placeholder loop: the
\* chunk it is suspended with is the one fixed placeholder part, it has never
\* invoked the Detector, its handle has never been opened, it has not finished
\* and it can take its next step, even after the source has become valid.
C7_PlaceholderForever ==
    /\ [](\A c \in Conns :
            conn[c].valid = "invalid" =>
                /\ conn[c].pc \in {"ph_yield", "ph_sleep"}
                /\ conn[c].out = IF conn[c].pc = "ph_yield" THEN PlaceholderChunk ELSE NoChunk
                /\ PlaceholderChunk.boundary = "--frame"
                /\ PlaceholderChunk.image = "placeholder"
                /\ ~conn[c].det
                /\ ~cap[StreamCap(c)].open
                /\ ENABLED StreamStep(c))
    /\ [][\A c \in Conns :
            conn[c].valid = "invalid" =>
                (conn'[c].valid = "invalid" \/ conn'[c] = IdleConn)]_vars

\* The placeholder loop goes on after the file has become a valid video.
C7_Witness ==
    /\ conn["c1"].valid = "invalid"
    /\ conn["c1"].pc = "ph_yield"
    /\ conn["c1"].out = PlaceholderChunk
    /\ IsValidVideo(source[conn["c1"].path])

\* The generator runs on a handle that opened a video of n >= 1 frames.
Streaming(c) ==
    /\ conn[c].valid = "valid"
    /\ conn[c].pc \in {"read", "detect", "encode", "yield", "raised"}
    /\ cap[StreamCap(c)].open
    /\ cap[StreamCap(c)].frames >= 1

\* C8 as stated: a generator on a valid source of n frames never finishes, and
\* each chunk it yields is the frame after the one it yielded before, modulo n,
\* the first being frame 0.
C8_FramesInOrderForever ==
    \A c \in Conns :
        Streaming(c) =>
            /\ conn[c].pc # "raised"
            /\ conn[c].pc = "yield" =>
                  conn[c].out = FrameChunk(IF conn[c].prev = NoFrame THEN 0
                                           ELSE (conn[c].prev + 1) % cap[StreamCap(c)].frames)

\* C9: each generator reads through a handle of its own: the handle's position
\* is always one past the frame the generator holds (0 when it holds none), a
\* yielded chunk is the frame it holds, a step of one connection changes no
\* other connection and no other handle, and a running generator can always
\* take its next step, whatever the other connections do and whoever holds
\* _stats_lock.
C9_FeedsIndependent ==
    /\ [](\A c \in Conns :
            /\ conn[c].pc \in {"read", "detect", "encode", "yield"} =>
                  /\ cap[StreamCap(c)].pos = conn[c].img + 1
                  /\ conn[c].pc = "yield" => conn[c].out = FrameChunk(conn[c].img)
            /\ conn[c].pc \notin {"idle", "raised"} => ENABLED StreamStep(c))
    /\ [][\A c, d \in Conns :
            (c # d /\ (conn'[c] # conn[c] \/ cap'[c] # cap[c])) =>
                (conn'[d] = conn[d] /\ cap'[d] = cap[d])]_vars

\* Two connections to the same endpoint at different frames while /slot_stats
\* holds the lock.
C9_Witness ==
    /\ conn["c1"].path = conn["c2"].path
    /\ conn["c1"].pc = "yield"
    /\ conn["c1"].img = 1
    /\ conn["c2"].pc = "detect"
    /\ conn["c2"].img = 0
    /\ stats_lock = "slot_stats"

\* C11 as stated: an exception of the detection call ends neither loop: the
\* sampler thread is never dead, and a generator that has invoked the Detector
\* is never finished by an exception.
C11_DetectorFailureNotFatal ==
    /\ spc # "dead"
    /\ \A c \in Conns : conn[c].det => conn[c].pc # "raised"

\* C12 as stated: no execution context holds the Stats Store lock while a
\* Detector call or a push to the Notification Sink is in progress: the sampler
\* is outside the lock when it runs the Detector or emits, and a handler that
\* has pushed a snapshot to its client is not the holder of the lock.
C12_LockOnlyForMemory ==
    /\ spc \in {"detect", "emit1", "emit2"} => stats_lock # "sampler"
    /\ req.pc = "built" => (resp.kind = "slot_updates" => stats_lock # req.h)

\* C13 as stated: a body built by slot_stats, system_metrics or handle_connect
\* is the store as it stands at an instant at which no sampler update is under
\* way, and a client that has read both the snapshot and the metrics holds a
\* pair with no sampler update between the two reads.
C13_ReadsConsistent ==
    /\ req.pc = "built" =>
           /\ resp.data = (IF req.h = "system_metrics" THEN system_metrics ELSE slot_stats)
           /\ stats_lock = req.h
           /\ spc \notin {"w_occupied", "w_free", "w_total", "w_rate", "w_active",
                          "w_revenue", "w_violations", "unlock"}
    /\ reader # "mixed"

\* C14: in every reachable state GET /health can respond, whoever holds the
\* lock, whatever the source is and wherever the sampler stands, and a step
\* in which it responds returns {"status": "ok"} and changes nothing else.
C14_HealthAlwaysOk ==
    /\ [](ENABLED Health)
    /\ [][health_resp' # health_resp /\ health_resp' # NoBody =>
              /\ health_resp' = HealthBody
              /\ UNCHANGED <<statsVars, source, conn, cap, reader>>]_vars

\* /health has answered while the sampler holds the lock on an invalid source.
C14_Witness ==
    /\ health_resp = HealthBody
    /\ stats_lock = "sampler"
    /\ ~IsValidVideo(source[video_path_1])

\* C15 as stated: whenever the store is not in the middle of an update, from
\* the startup defaults onward, activeVehicles equals occupiedSlots and
\* dailyRevenue equals round(occupiedSlots * 150 * 0.8).
C15_MetricsDerived ==
    StoreStable =>
        /\ system_metrics.activeVehicles = slot_stats.occupiedSlots
        /\ system_metrics.dailyRevenue = Revenue(slot_stats.occupiedSlots)

\* C16: within one cycle each event name is pushed at most once, every push
\* carries the store as it is (nothing from an earlier cycle is replayed: a
\* cycle starts with nothing pushed), once something in the cycle has failed
\* nothing more is pushed in it, and a push, failed or not, and the handling of
\* its failure leave the store as the cycle's update made it.
C16_PushAtMostOnce ==
    /\ [](\A i, j \in 1..Len(cycle.pushed) :
              /\ cycle.pushed[i].data = slot_stats
              /\ cycle.pushed[i].event = cycle.pushed[j].event => i = j)
    /\ [][spc = "sleep" /\ spc' # "sleep" => cycle'.pushed = <<>>]_vars
    /\ [][cycle.exc /\ spc # "sleep" => cycle'.pushed = cycle.pushed]_vars
    /\ [][(spc \in {"emit1", "emit2", "except"}) =>
              UNCHANGED <<slot_stats, system_metrics>>]_vars

\* The push of stats-update failed after an update of the store: slot_updates
\* has gone out once, and the sleep is reached with the update in place.
C16_Witness ==
    /\ spc = "sleep"
    /\ cycle.exc
    /\ result = <<2, 1>>
    /\ Pushed(<<"slot_updates">>)
    /\ slot_stats.occupiedSlots = 2 /\ slot_stats.totalSlots = 3
    /\ system_metrics.activeVehicles = 2

\* C17: a step that changes a field of _slot_stats or _system_metrics is a
\* step of the sampler inside its locked update; no step of health, slot_stats,
\* system_metrics, a stream_logic generator, handle_connect, handle_subscribe
\* or handle_disconnect changes the store.
C17_OnlySamplerWrites ==
    [][(slot_stats' # slot_stats \/ system_metrics' # system_metrics) =>
           /\ stats_lock = "sampler"
           /\ spc \in {"w_occupied", "w_free", "w_total", "w_rate", "w_active",
                       "w_revenue", "w_violations"}]_vars

\* /health has answered, handle_connect has pushed and a generator has a frame
\* chunk out, with the store as it was.
C17_Witness ==
    /\ health_resp = HealthBody
    /\ req = [h |-> "handle_connect", pc |-> "built"]
    /\ conn["c1"].pc = "yield"
    /\ conn["c1"].det
    /\ slot_stats.totalSlots = 396
    /\ system_metrics.activeVehicles = 143

\* C18: when the encoding of a frame fails, the generator yields no chunk for
\* it and goes back to its read with the handle where it stood, one past the
\* failed frame; and the read that follows a frame i, encoded or not, brings
\* frame i + 1, or, at end-of-stream, rewinds the handle so that the next read
\* brings frame 0.
C18_EncodeFailureSkipsFrame ==
    /\ [][\A c \in Conns :
            (conn[c].pc = "encode" /\ conn'[c] # conn[c] /\ conn'[c].pc # "yield") =>
                /\ conn'[c] = [conn[c] EXCEPT !.pc = "read"]
                /\ conn'[c].out = NoChunk
                /\ cap'[StreamCap(c)] = cap[StreamCap(c)]
                /\ cap[StreamCap(c)].pos = conn[c].img + 1]_vars
    /\ [][\A c \in Conns :
            (conn[c].pc = "read" /\ conn'[c] # conn[c]) =>
                \/ /\ conn'[c].pc = "detect"
                   /\ conn'[c].img = conn[c].img + 1
                \/ /\ conn'[c].pc = "read"
                   /\ conn[c].img + 1 = cap[StreamCap(c)].frames
                   /\ conn'[c].img = NoFrame
                   /\ cap'[StreamCap(c)].pos = 0]_vars

\* The encoding of frame 1 of a 2-frame source failed after frame 0 was sent:
\* the next chunk is frame 0 again.
C18_Witness ==
    /\ Streaming("c1")
    /\ cap[StreamCap("c1")].frames = 2
    /\ conn["c1"].pc = "yield"
    /\ conn["c1"].out = FrameChunk(0)
    /\ conn["c1"].prev = 0

C20_HandlesOwned ==
    /\ [](spc # "read" => scap = None)
    /\ [](\A c \in Conns :
            /\ conn[c].pc \in {"idle", "exists", "probe", "open", "ph_yield", "ph_sleep"} =>
                   ~cap[StreamCap(c)].open
            /\ cap[StreamCap(c)].open => conn[c].valid = "valid")
    /\ [][\A c \in Conns :
            /\ (~cap[StreamCap(c)].open /\ cap'[StreamCap(c)].open) =>
                   /\ conn[c].pc = "open"
                   /\ conn[c].valid = "valid"
                   /\ cap'[StreamCap(c)].pos = 0
            /\ (conn[c].pc = "open" /\ conn'[c].pc = "read") =>
                   cap'[StreamCap(c)].open = (source[conn[c].path].exists
                                               /\ source[conn[c].path].opens)
            /\ (cap[StreamCap(c)].open /\ ~cap'[StreamCap(c)].open) =>
                   conn'[c] = IdleConn]_vars

\* The sampler runs the Detector on the frame it read while a generator is
\* still sending frames from the handle it opened at its start, on its second
\* round, after the file has been removed.
C20_Witness ==
    /\ spc = "detect"
    /\ Streaming("c1")
    /\ conn["c1"].pc = "yield"
    /\ conn["c1"].prev = 1
    /\ conn["c1"].out = FrameChunk(0)
    /\ ~source[conn["c1"].path].exists

====
